---------------------------- MODULE Spec2Model ----------------------------
(***************************************************************************)
(* A model of the "alternative internet" engine:                           *)
(*   - prompts/scenario_manager.py : ScenarioManager (the Scenario Store)  *)
(*   - chat.py                     : Chat (the Conversation Engine)        *)
(*   - image_generator.py          : ImageGenerator (the Asset Cache)      *)
(*   - lm/openai_lm_client.py      : a Generation Client                   *)
(*                                                                         *)
(* Python values are modelled as follows.  A str that is only stored,      *)
(* compared and tested for truth is a TLA+ string; None is the string      *)
(* None below.  A str whose characters the code inspects (an image name, a *)
(* path on disk) is a sequence of one-character strings.  A str built by   *)
(* an f-string is the sequence of its pieces.  A dict is a function.       *)
(***************************************************************************)
EXTENDS Integers, Sequences, FiniteSets, TLC

VARIABLES
    templates_dir,          \* the *.json files of ScenarioManager.templates_dir
    scenarios,              \* ScenarioManager.scenarios
    scenario_description,   \* Chat.scenario_description
    conversation,           \* Chat.conversation
    lm_client,              \* which BaseLMClient Chat.lm_client is
    cache_dir,              \* the files of ImageGenerator.cache_dir
    stdout,                 \* what the last call printed
    ret,                    \* the last call: its name, arguments and outcome
    requests                \* the calls in flight on the Chat, each at its line

vars == <<templates_dir, scenarios, scenario_description, conversation,
          lm_client, cache_dir, stdout, ret, requests>>

chatVars == <<templates_dir, scenarios, scenario_description, conversation, lm_client,
              requests>>

imageVars == <<cache_dir>>

-----------------------------------------------------------------------------
(* Python's None, truth of a str, and dict helpers *)

None == "<None>"

\* `if s:` for s a str or None
Truthy(s) == s # None /\ s # ""

EmptyDict == [k \in {} |-> None]

\* d[k] = v
DictSet(d, k, v) == [x \in (DOMAIN d) \cup {k} |-> IF x = k THEN v ELSE d[x]]

-----------------------------------------------------------------------------
(* Bounds of the model *)

\* the longest transcript a navigation may still extend
MaxTurns == 3

\* The number of record files a templates directory is loaded with
MaxFiles == 4

\* The number of commas in a str the image-generation capability returns
MaxCommas == 2

\* The number of pieces (words, separators, dots) an image name is made of
MaxTokens == 5

\* the number of distinct image contents the image-generation capability delivers
NumContents == 2

-----------------------------------------------------------------------------
(* prompts/scenario_manager.py *)

ScenarioTemplate(name, description, scenario) ==
    [name |-> name, description |-> description, scenario |-> scenario]

\* Optional[ScenarioTemplate]: the value get_scenario returns for a missing name
NoTemplate == ScenarioTemplate(None, None, None)

etherweave ==
    ScenarioTemplate("etherweave",
        "Ancient magical internet powered by alchemy and arcane forces",
        "Imagine a world where the Internet was not born from silicon and code ...")

cyberpunk ==
    ScenarioTemplate("cyberpunk",
        "Dystopian internet dominated by megacorporations and digital rebellion",
        "In 2077, after the Corporate Wars, six megacorporations divided ...")

solarpunk ==
    ScenarioTemplate("solarpunk",
        "Optimistic eco-futurist internet focused on sustainability and community",
        "In the early 2030s, after the Great Decentralization Movement, ...")

retrofuturist ==
    ScenarioTemplate("retrofuturist",
        "1950s-style retrofuturist internet with atomic age aesthetics",
        "Welcome to the Atomnet, the gleaming electronic marvel of 1957! ...")

\* A persisted record: json.load and from_dict succeed (ok) or raise.
JsonFile(template) == [ok |-> TRUE, data |-> template]

CorruptFile == [ok |-> FALSE, data |-> NoTemplate]

\* A ScenarioManager is its directory, its dict and what it printed.
Manager(dir, dict, out) == [dir |-> dir, scenarios |-> dict, out |-> out]

\* _save_scenario leaving alone a name the store already holds
save_scenario_keeps_first(sm, scenario) ==
    IF scenario.name \in DOMAIN sm.scenarios
    THEN sm
    ELSE Manager(DictSet(sm.dir, scenario.name, JsonFile(scenario)),
                 DictSet(sm.scenarios, scenario.name, scenario),
                 sm.out)

\* _save_scenario: writes <name>.json and sets scenarios[name]
save_scenario(sm, scenario) ==
    Manager(DictSet(sm.dir, scenario.name, JsonFile(scenario)),
            DictSet(sm.scenarios, scenario.name, scenario),
            sm.out)

create_default_scenarios(sm) ==
    save_scenario(save_scenario(save_scenario(save_scenario(sm,
        etherweave), cyberpunk), solarpunk), retrofuturist)

\* the loop body of _load_scenarios for one file name
load_file(sm, filename) ==
    IF sm.dir[filename].ok
    THEN Manager(sm.dir,
                 DictSet(sm.scenarios, sm.dir[filename].data.name, sm.dir[filename].data),
                 sm.out)
    ELSE Manager(sm.dir, sm.scenarios,
                 Append(sm.out, <<"Error loading scenario ", filename>>))

\* the loop of _load_scenarios with the try around the whole loop: the first
\* damaged file ends the loading
RECURSIVE load_files_aborts(_, _)
load_files_aborts(sm, listdir) ==
    IF listdir = <<>> THEN sm
    ELSE IF sm.dir[Head(listdir)].ok
         THEN load_files_aborts(load_file(sm, Head(listdir)), Tail(listdir))
         ELSE load_file(sm, Head(listdir))

RECURSIVE load_files(_, _)
load_files(sm, listdir) ==
    IF listdir = <<>> THEN sm
    ELSE load_files(load_file(sm, Head(listdir)), Tail(listdir))

\* os.listdir: the files of `dir` in the order in which `order` ranks them
listdir(dir, order) == SelectSeq(order, LAMBDA f : f \in DOMAIN dir)

\* _load_scenarios creating the default scenarios whatever the directory holds
load_scenarios_always_seeds(sm, order) ==
    load_files(create_default_scenarios(sm),
               listdir(create_default_scenarios(sm).dir, order))

\* _load_scenarios, with os.listdir ranking the files as `order` does
load_scenarios(sm, order) ==
    IF DOMAIN sm.dir = {}
    THEN load_files(create_default_scenarios(sm),
                    listdir(create_default_scenarios(sm).dir, order))
    ELSE load_files(sm, listdir(sm.dir, order))

\* ScenarioManager.__init__
ScenarioManager(dir, order) == load_scenarios(Manager(dir, EmptyDict, <<>>), order)

get_scenario(dict, name) == IF name \in DOMAIN dict THEN dict[name] ELSE NoTemplate

add_scenario(sm, scenario) == save_scenario(sm, scenario)

-----------------------------------------------------------------------------
(* lm/*.py: the Generation Client *)

\* what do_chat_completion may do: raise, or return the text `response`
Completion(raised, response) == [raised |-> raised, response |-> response]

Completions ==
    {Completion(TRUE, None), Completion(FALSE, "<!DOCTYPE html>...")}

\* CerebrasLMClient.do_chat_completion: the list `messages` after the call
CerebrasLMClient_messages(messages) == messages

\* OpenAILMClient.do_chat_completion, lines 20-22: the list `messages` after the call
OpenAILMClient_messages(messages) ==
    [i \in DOMAIN messages |->
        IF messages[i].role = "system"
        THEN [messages[i] EXCEPT !.role = "developer"]
        ELSE messages[i]]

\* self.lm_client.do_chat_completion(messages=...): the list after the call
do_chat_completion_messages(client, messages) ==
    IF client = "OpenAILMClient"
    THEN OpenAILMClient_messages(messages)
    ELSE CerebrasLMClient_messages(messages)

-----------------------------------------------------------------------------
(* chat.py *)

Message(role, content) == [role |-> role, content |-> content]

\* get_system_prompt: the f-string's pieces
get_system_prompt(description) ==
    <<"You are a highly creative and motivated HTML generator ... This is the fictional scenario for the alternative internet: ",
      description,
      " (end of scenario)">>

\* the f-string of browse_to_page, lines 42-43
browse_prompt(path) ==
    <<"The user has browsed to the following path: ",
      path,
      ". Generate an HTML page as instructed for this path ... no additional comment whatsoever.">>

\* lines 31-36 and 85-90: the transcript of a fresh scenario
initial_conversation(description) ==
    <<Message("system", get_system_prompt(description))>>

\* the outcome of a call: what it returned, or that it raised
Returned(op, args, value) == [op |-> op, args |-> args, raised |-> FALSE, value |-> value]

Raised(op, args) == [op |-> op, args |-> args, raised |-> TRUE, value |-> None]

\* the outcome `r` of a call that called the Generation Client `n` times
Called(r, n) ==
    [op |-> r.op, args |-> r.args, raised |-> r.raised, value |-> r.value, calls |-> n]

\* A call of browse_to_page in flight: the line it is at, and its path
Browsing(pc, path) == [pc |-> pc, path |-> path]

\* A call of change_scenario in flight: the line it is at, its arguments and
\* its local scenario_description
Changing(pc, args, description) == [pc |-> pc, args |-> args, description |-> description]

\* no call in flight
NoRequests ==
    [browse |-> Browsing("idle", None), change |-> Changing("idle", <<None, None>>, None)]

\* lines 21-22 and 25-26: the default scenario's text
default_description(dict) ==
    IF get_scenario(dict, "etherweave") # NoTemplate
    THEN get_scenario(dict, "etherweave").scenario
    ELSE "A fictional alternative internet"

\* init_scenario keeping the caller's description when the name is not found
init_scenario_no_fallback(dict, description, name) ==
    IF Truthy(name) /\ get_scenario(dict, name) # NoTemplate
    THEN [description |-> get_scenario(dict, name).scenario, out |-> <<>>]
    ELSE IF Truthy(name)
         THEN [description |-> description,
               out |-> << <<"Scenario '", name, "' not found. Using default scenario.">> >>]
         ELSE [description |-> description, out |-> <<>>]

\* init_scenario letting a description given by the caller win over the name
init_scenario_description_first(dict, description, name) ==
    IF Truthy(description)
    THEN [description |-> description, out |-> <<>>]
    ELSE IF Truthy(name) /\ get_scenario(dict, name) # NoTemplate
         THEN [description |-> get_scenario(dict, name).scenario, out |-> <<>>]
         ELSE [description |-> default_description(dict),
               out |-> IF Truthy(name)
                       THEN << <<"Scenario '", name, "' not found. Using default scenario.">> >>
                       ELSE <<>>]

\* Chat.__init__, lines 15-26: the description the engine starts with, and what is printed
init_scenario(dict, description, name) ==
    IF Truthy(name)
    THEN IF get_scenario(dict, name) # NoTemplate
         THEN [description |-> get_scenario(dict, name).scenario, out |-> <<>>]
         ELSE [description |-> default_description(dict),
               out |-> << <<"Scenario '", name, "' not found. Using default scenario.">> >>]
    ELSE IF ~Truthy(description)
         THEN [description |-> default_description(dict), out |-> <<>>]
         ELSE [description |-> description, out |-> <<>>]

\* Chat.__init__ on the directory `dir`
Chat(dir, order, description, name) ==
    LET sm == ScenarioManager(dir, order)
        r  == init_scenario(sm.scenarios, description, name)
    IN  [templates_dir        |-> sm.dir,
         scenarios            |-> sm.scenarios,
         scenario_description |-> r.description,
         conversation         |-> initial_conversation(r.description),
         stdout               |-> sm.out \o r.out,
         ret                  |-> Returned("Chat", <<description, name>>, None)]

\* browse_to_page sending the user turn without recording it
browse_to_page_drops_request(conv, client, path, completion) ==
    IF completion.raised
    THEN [conversation |-> conv, stdout |-> <<>>,
          ret |-> Called(Raised("browse_to_page", <<path>>), 1)]
    ELSE [conversation |-> Append(conv, Message("assistant", <<completion.response>>)),
          stdout       |-> << <<"Generated page.">> >>,
          ret          |-> Called(Returned("browse_to_page", <<path>>, completion.response), 1)]

\* browse_to_page answering a failure of the Generation Client with a second
\* call, and recording an empty page before it gives up
browse_to_page_falls_back(conv, client, path, completion) ==
    LET asked == do_chat_completion_messages(client,
                     Append(conv, Message("user", browse_prompt(path))))
    IN  IF completion.raised
        THEN [conversation |-> Append(asked, Message("assistant", <<"">>)),
              stdout       |-> <<>>,
              ret          |-> Called(Raised("browse_to_page", <<path>>), 2)]
        ELSE [conversation |-> Append(asked, Message("assistant", <<completion.response>>)),
              stdout       |-> << <<"Generated page.">> >>,
              ret          |-> Called(Returned("browse_to_page", <<path>>, completion.response), 1)]

\* Chat.browse_to_page, the Generation Client answering with `completion`
browse_to_page(conv, client, path, completion) ==
    LET asked == do_chat_completion_messages(client,
                     Append(conv, Message("user", browse_prompt(path))))
    IN  IF completion.raised
        THEN [conversation |-> asked,
              stdout       |-> <<>>,
              ret          |-> Called(Raised("browse_to_page", <<path>>), 1)]
        ELSE [conversation |-> Append(asked, Message("assistant", <<completion.response>>)),
              stdout       |-> << <<"Generated page.">> >>,
              ret          |-> Called(Returned("browse_to_page", <<path>>, completion.response), 1)]

\* Chat.add_custom_scenario
add_custom_scenario(sm, name, description, scenario) ==
    add_scenario(sm, ScenarioTemplate(name, description, scenario))

\* Chat.change_scenario, lines 74-80: the description to switch to, or None
\* when the name is not in the store
change_scenario_description(dict, name, description) ==
    IF Truthy(name)
    THEN IF get_scenario(dict, name) # NoTemplate
         THEN get_scenario(dict, name).scenario
         ELSE None
    ELSE description

\* change_scenario appending the new system turn instead of starting over
\* change_scenario answering True also when it found nothing to switch to
change_scenario_reports_true(dict, current, conv, name, description) ==
    IF Truthy(name) /\ get_scenario(dict, name) = NoTemplate
    THEN [scenario_description |-> current,
          conversation         |-> conv,
          stdout               |-> << <<"Scenario '", name, "' not found.">> >>,
          ret                  |-> Returned("change_scenario", <<name, description>>, TRUE)]
    ELSE IF Truthy(change_scenario_description(dict, name, description))
         THEN [scenario_description |-> change_scenario_description(dict, name, description),
               conversation         |-> initial_conversation(
                                            change_scenario_description(dict, name, description)),
               stdout               |-> <<>>,
               ret                  |-> Returned("change_scenario", <<name, description>>, TRUE)]
         ELSE [scenario_description |-> current,
               conversation         |-> conv,
               stdout               |-> <<>>,
               ret                  |-> Returned("change_scenario", <<name, description>>, TRUE)]

\* change_scenario resetting the transcript without recording the description
change_scenario_forgets_description(dict, current, conv, name, description) ==
    IF Truthy(name) /\ get_scenario(dict, name) = NoTemplate
    THEN [scenario_description |-> current,
          conversation         |-> conv,
          stdout               |-> << <<"Scenario '", name, "' not found.">> >>,
          ret                  |-> Returned("change_scenario", <<name, description>>, FALSE)]
    ELSE IF Truthy(change_scenario_description(dict, name, description))
         THEN [scenario_description |-> current,
               conversation         |-> initial_conversation(
                                            change_scenario_description(dict, name, description)),
               stdout               |-> <<>>,
               ret                  |-> Returned("change_scenario", <<name, description>>, TRUE)]
         ELSE [scenario_description |-> current,
               conversation         |-> conv,
               stdout               |-> <<>>,
               ret                  |-> Returned("change_scenario", <<name, description>>, FALSE)]

change_scenario_keeps_history(dict, current, conv, name, description) ==
    IF Truthy(change_scenario_description(dict, name, description))
    THEN [scenario_description |-> change_scenario_description(dict, name, description),
          conversation         |-> conv \o initial_conversation(
                                       change_scenario_description(dict, name, description)),
          stdout               |-> <<>>,
          ret                  |-> Returned("change_scenario", <<name, description>>, TRUE)]
    ELSE [scenario_description |-> current,
          conversation         |-> conv,
          stdout               |-> IF Truthy(name)
                                   THEN << <<"Scenario '", name, "' not found.">> >>
                                   ELSE <<>>,
          ret                  |-> Returned("change_scenario", <<name, description>>, FALSE)]

\* change_scenario falling back to the default scenario when the name is not found
change_scenario_falls_back(dict, current, conv, name, description) ==
    LET d == IF Truthy(name)
             THEN init_scenario(dict, description, name).description
             ELSE description
    IN  IF Truthy(d)
        THEN [scenario_description |-> d,
              conversation         |-> initial_conversation(d),
              stdout               |-> IF Truthy(name)
                                       THEN init_scenario(dict, description, name).out
                                       ELSE <<>>,
              ret                  |-> Returned("change_scenario", <<name, description>>, TRUE)]
        ELSE [scenario_description |-> current,
              conversation         |-> conv,
              stdout               |-> <<>>,
              ret                  |-> Returned("change_scenario", <<name, description>>, FALSE)]

\* Chat.change_scenario
change_scenario(dict, current, conv, name, description) ==
    IF Truthy(name) /\ get_scenario(dict, name) = NoTemplate
    THEN [scenario_description |-> current,
          conversation         |-> conv,
          stdout               |-> << <<"Scenario '", name, "' not found.">> >>,
          ret                  |-> Returned("change_scenario", <<name, description>>, FALSE)]
    ELSE IF Truthy(change_scenario_description(dict, name, description))
         THEN [scenario_description |-> change_scenario_description(dict, name, description),
               conversation         |-> initial_conversation(
                                            change_scenario_description(dict, name, description)),
               stdout               |-> <<>>,
               ret                  |-> Returned("change_scenario", <<name, description>>, TRUE)]
         ELSE [scenario_description |-> current,
               conversation         |-> conv,
               stdout               |-> <<>>,
               ret                  |-> Returned("change_scenario", <<name, description>>, FALSE)]

-----------------------------------------------------------------------------
(* str operations on sequences of characters *)

\* s.lower(), for the letters the model's names use
lower(s) ==
    [i \in 1..Len(s) |->
        CASE s[i] = "P" -> "p" [] s[i] = "N" -> "n" [] s[i] = "G" -> "g"
          [] s[i] = "J" -> "j" [] s[i] = "E" -> "e" [] OTHER -> s[i]]

\* s.endswith(suffix)
endswith(s, suffix) ==
    /\ Len(s) >= Len(suffix)
    /\ SubSeq(s, Len(s) - Len(suffix) + 1, Len(s)) = suffix

\* s.rfind(c), counting from 1; 0 when c does not occur
RECURSIVE rfind(_, _)
rfind(s, c) ==
    IF s = <<>> THEN 0
    ELSE IF s[Len(s)] = c THEN Len(s)
    ELSE rfind(SubSeq(s, 1, Len(s) - 1), c)

\* os.path.splitext(p): the extension starts at the last dot of the last path
\* component, unless only dots come before it in that component
splitext(p) ==
    LET sepIndex == rfind(p, "/")
        dotIndex == rfind(p, ".")
    IN  IF /\ dotIndex > sepIndex
           /\ \E filenameIndex \in (sepIndex + 1)..(dotIndex - 1) : p[filenameIndex] # "."
        THEN [root |-> SubSeq(p, 1, dotIndex - 1), ext |-> SubSeq(p, dotIndex, Len(p))]
        ELSE [root |-> p, ext |-> <<>>]

\* os.path.join(a, b)
join(a, b) ==
    IF b # <<>> /\ b[1] = "/" THEN b
    ELSE IF a = <<>> \/ a[Len(a)] = "/" THEN a \o b
    ELSE a \o <<"/">> \o b

\* s.replace(a, b) for single characters a and b
replace(s, a, b) == [i \in 1..Len(s) |-> IF s[i] = a THEN b ELSE s[i]]

\* the characters \s matches and strip() removes, among those the model's names use
Whitespace == {" "}

\* re.sub(r'\s+', ' ', s)
RECURSIVE collapse(_)
collapse(s) ==
    IF s = <<>> THEN s
    ELSE IF s[1] \in Whitespace
         THEN IF Len(s) >= 2 /\ s[2] \in Whitespace
              THEN collapse(Tail(s))
              ELSE <<" ">> \o collapse(Tail(s))
         ELSE <<s[1]>> \o collapse(Tail(s))

RECURSIVE lstrip(_)
lstrip(s) == IF s # <<>> /\ s[1] \in Whitespace THEN lstrip(Tail(s)) ELSE s

RECURSIVE rstrip(_)
rstrip(s) ==
    IF s # <<>> /\ s[Len(s)] \in Whitespace THEN rstrip(SubSeq(s, 1, Len(s) - 1)) ELSE s

\* s.strip()
strip(s) == rstrip(lstrip(s))

-----------------------------------------------------------------------------
(* image_generator.py *)

\* main.py line 9: ImageGenerator(cache_dir="image_cache")
CacheDirName == <<"i", "m", "a", "g", "e", "_", "c", "a", "c", "h", "e">>

DotPng == <<".", "p", "n", "g">>

DotJpg == <<".", "j", "p", "g">>

DotJpeg == <<".", "j", "p", "e", "g">>

\* line 43: the length below which a prompt is enhanced
MinPromptLen == 10

\* process_image_name enhancing a name of MinPromptLen characters too
process_image_name_enhances_more(image_name) ==
    LET name == strip(collapse(replace(replace(splitext(image_name).root, "-", " "), "_", " ")))
    IN  IF Len(name) <= MinPromptLen
        THEN <<"D", "e", "t", "a", "i", "l", "e", "d", " ", "i", "l", "l", "u", "s", "t", "r", "a", "t", "i", "o", "n", " ", "o", "f", " ">> \o name
        ELSE name

\* ImageGenerator.process_image_name
process_image_name(image_name) ==
    LET name == strip(collapse(replace(replace(splitext(image_name).root, "-", " "), "_", " ")))
    IN  IF Len(name) < MinPromptLen
        THEN <<"D", "e", "t", "a", "i", "l", "e", "d", " ", "i", "l", "l", "u", "s", "t", "r", "a", "t", "i", "o", "n", " ", "o", "f", " ">> \o name
        ELSE name

\* The blocks of bytes image contents are made of; bytes are a sequence of
\* blocks
Contents == 1..NumContents

\* base64 text (whole groups of four characters): it decodes to `bytes`
B64(bytes) == [valid |-> TRUE, bytes |-> bytes]

\* text that b64decode rejects (incorrect padding)
NotB64 == [valid |-> FALSE, bytes |-> <<>>]

\* A Python value met inside the capability's result: its type; for a dict,
\* whether it has a 'url' and what requests.get(url) then gives; for a str, the
\* base64 texts between its commas (s.split(','))
Item(type, has_url, download, parts) ==
    [type |-> type, has_url |-> has_url, download |-> download, parts |-> parts]

NoDownload == [ok |-> FALSE, content |-> <<>>]

UrlItem(ok, content) == Item("dict", TRUE, [ok |-> ok, content |-> content], <<>>)

StrItem(parts) == Item("str", FALSE, NoDownload, parts)

OtherItem(type) == Item(type, FALSE, NoDownload, <<>>)

\* The value fal_client.subscribe returns: whether it is a dict, whether it has
\* 'images' and whether that is a list (its entries: images_list; otherwise the
\* value itself: images_value), whether it has 'image' and its value
Result(is_dict, has_images, images_is_list, images_list, images_value, has_image, image) ==
    [is_dict |-> is_dict, has_images |-> has_images, images_is_list |-> images_is_list,
     images_list |-> images_list, images_value |-> images_value,
     has_image |-> has_image, image |-> image]

ImagesResult(images_list) ==
    Result(TRUE, TRUE, TRUE, images_list, OtherItem("NoneType"), FALSE, OtherItem("NoneType"))

SingleImagesResult(value) ==
    Result(TRUE, TRUE, FALSE, <<>>, value, FALSE, OtherItem("NoneType"))

ImageResult(image) ==
    Result(TRUE, FALSE, FALSE, <<>>, OtherItem("NoneType"), TRUE, image)

EmptyResult == Result(TRUE, FALSE, FALSE, <<>>, OtherItem("NoneType"), FALSE, OtherItem("NoneType"))

NotADict == Result(FALSE, FALSE, FALSE, <<>>, OtherItem("NoneType"), FALSE, OtherItem("NoneType"))

\* what fal_client.subscribe may do: raise, or return `result`
Subscribed(raised, result) == [raised |-> raised, result |-> result]

\* ImageGenerator.generate_image, lines 79-84, on the value subscribe returned
generate_image(result) ==
    IF result.is_dict /\ result.has_images /\ ~result.images_is_list
    THEN [result EXCEPT !.images_is_list = TRUE, !.images_list = <<result.images_value>>]
    ELSE result

\* the outcome of extracting the image content: the bytes, or the exception that
\* line 139 wraps in ValueError("Failed to process image data: ...")
Content(bytes) == [raised |-> FALSE, bytes |-> bytes, error |-> None]

ValueError(message) == [raised |-> TRUE, bytes |-> <<>>, error |-> message]

\* base64.b64decode of a text without commas
b64decode(text) ==
    IF text.valid THEN Content(text.bytes) ELSE ValueError("binascii.Error: Incorrect padding")

\* the bytes of the texts one after the other
RECURSIVE concat_bytes(_)
concat_bytes(parts) ==
    IF parts = <<>> THEN <<>> ELSE Head(parts).bytes \o concat_bytes(Tail(parts))

\* base64.b64decode of the str whose pieces between commas are `parts`: the
\* commas are not base64 characters and are discarded
b64decode_str(parts) ==
    IF \A i \in 1..Len(parts) : parts[i].valid
    THEN Content(concat_bytes(parts))
    ELSE ValueError("binascii.Error: Incorrect padding")

\* save_image, lines 108-126: the first entry of 'images'
image_item_content(image_item) ==
    IF image_item.type = "dict" /\ image_item.has_url
    THEN IF image_item.download.ok
         THEN Content(image_item.download.content)
         ELSE ValueError("requests.HTTPError")
    ELSE IF image_item.type = "str" /\ Len(image_item.parts) >= 2
         THEN b64decode(image_item.parts[2])
         ELSE IF image_item.type = "str"
              THEN b64decode(image_item.parts[1])
              ELSE ValueError("Unsupported image format")

\* save_image, lines 105-139
image_content(image_data) ==
    IF image_data.is_dict /\ image_data.has_images /\ image_data.images_is_list
    THEN IF image_data.images_list = <<>>
         THEN ValueError("IndexError: list index out of range")
         ELSE image_item_content(image_data.images_list[1])
    ELSE IF image_data.is_dict /\ image_data.has_image
         THEN IF image_data.image.type = "str"
              THEN b64decode_str(image_data.image.parts)
              ELSE ValueError("Unexpected image format")
         ELSE ValueError("Failed to extract image data from response")

\* save_image, lines 97-102: the path the image is written to
save_image_path(dirname, image_name) ==
    IF ~ (\/ endswith(lower(image_name), DotPng)
          \/ endswith(lower(image_name), DotJpg)
          \/ endswith(lower(image_name), DotJpeg))
    THEN join(dirname, image_name \o DotPng)
    ELSE join(dirname, image_name)

\* save_image leaving alone a file that is already there
save_image_keeps_existing(files, image_data, image_name) ==
    LET image_content_ == image_content(image_data)
        image_path_    == save_image_path(CacheDirName, image_name)
    IN  IF image_content_.raised
        THEN [raised |-> TRUE, files |-> files, value |-> <<>>,
              error |-> image_content_.error]
        ELSE [raised |-> FALSE,
              files  |-> IF image_path_ \in DOMAIN files
                         THEN files
                         ELSE DictSet(files, image_path_, image_content_.bytes),
              value  |-> image_path_,
              error  |-> None]

\* save_image opening the file before the content is extracted: a failure
\* leaves an empty file behind
save_image_opens_first(files, image_data, image_name) ==
    LET image_content_ == image_content(image_data)
        image_path_    == save_image_path(CacheDirName, image_name)
    IN  IF image_content_.raised
        THEN [raised |-> TRUE, files |-> DictSet(files, image_path_, <<>>),
              value |-> <<>>, error |-> image_content_.error]
        ELSE [raised |-> FALSE,
              files  |-> DictSet(files, image_path_, image_content_.bytes),
              value  |-> image_path_,
              error  |-> None]

\* ImageGenerator.save_image: the files afterwards, and the path returned
save_image(files, image_data, image_name) ==
    LET image_content_ == image_content(image_data)
        image_path_    == save_image_path(CacheDirName, image_name)
    IN  IF image_content_.raised
        THEN [raised |-> TRUE, files |-> files, value |-> <<>>,
              error |-> image_content_.error]
        ELSE [raised |-> FALSE,
              files  |-> DictSet(files, image_path_, image_content_.bytes),
              value  |-> image_path_,
              error  |-> None]

\* with_extension defaulting to .jpg
with_extension_jpg(image_name) ==
    IF splitext(image_name).ext = <<>> THEN image_name \o DotJpg ELSE image_name

\* get_or_generate_image, lines 157-159: the name with an extension
with_extension(image_name) ==
    IF splitext(image_name).ext = <<>> THEN image_name \o DotPng ELSE image_name

\* get_or_generate_image, line 162: the path tested for a cache hit
image_path(image_name) == join(CacheDirName, with_extension(image_name))

\* get_or_generate_image without the test for a cached file
get_or_generate_image_no_cache(files, image_name, subscribed) ==
    LET saved == save_image(files, generate_image(subscribed.result),
                            with_extension(image_name))
    IN  IF subscribed.raised
        THEN [raised |-> TRUE, files |-> files, value |-> <<>>, calls |-> 1, out |-> <<>>,
              error |-> "fal_client"]
        ELSE [raised |-> saved.raised, files |-> saved.files,
              value |-> saved.value, calls |-> 1, out |-> <<>>, error |-> saved.error]

\* ImageGenerator.get_or_generate_image, the capability answering with `subscribed`:
\* the files afterwards, the path returned, and the number of calls of the capability
get_or_generate_image(files, image_name, subscribed) ==
    LET image_path_ == image_path(image_name)
        prompt      == process_image_name(with_extension(image_name))
        out         == << <<"Generating image for: ", prompt>>,
                          <<"Generating image with prompt: '", prompt,
                            ", high quality, detailed'">> >>
        saved       == save_image(files, generate_image(subscribed.result),
                                  with_extension(image_name))
    IN  IF image_path_ \in DOMAIN files
        THEN [raised |-> FALSE, files |-> files, value |-> image_path_, calls |-> 0,
              out |-> << <<"Using cached image: ", image_path_>> >>, error |-> None]
        ELSE IF subscribed.raised
             THEN [raised |-> TRUE, files |-> files, value |-> <<>>, calls |-> 1, out |-> out,
                   error |-> "fal_client"]
             ELSE [raised |-> saved.raised, files |-> saved.files,
                   value |-> saved.value, calls |-> 1, out |-> out, error |-> saved.error]

\* get_image_as_base64, lines 194-195
mime_type(path) ==
    IF lower(splitext(path).ext) \in {DotJpg, DotJpeg} THEN "image/jpeg" ELSE "image/png"

\* the data URI f"data:{mime_type};base64,{encoded}"
DataURI(mime, encoded) == [mime |-> mime, encoded |-> encoded]

\* ImageGenerator.get_image_as_base64
get_image_as_base64(files, image_name, subscribed) ==
    LET got == get_or_generate_image(files, image_name, subscribed)
    IN  IF got.raised
        THEN [raised |-> TRUE, files |-> got.files, value |-> DataURI("", NotB64),
              path |-> got.value, calls |-> got.calls, out |-> got.out,
              error |-> got.error]
        ELSE [raised |-> FALSE, files |-> got.files,
              value |-> DataURI(mime_type(got.value), B64(got.files[got.value])),
              path |-> got.value, calls |-> got.calls, out |-> got.out,
              error |-> None]

\* the outcome of a call of the image generator
ImageReturn(op, image_name, r) ==
    [op |-> op, args |-> <<image_name>>, raised |-> r.raised, value |-> r.value,
     calls |-> r.calls, error |-> r.error]

-----------------------------------------------------------------------------
(* The inputs the model draws from *)

\* scenario names a caller passes: absent, built-in, custom, never stored
ScenarioNames == {None, "etherweave", "steampunk", "atlantis"}

\* scenario descriptions a caller passes
ScenarioDescriptions == {None, "", "A drowned city's network of singing shells"}

\* what add_custom_scenario is called with
CustomNames == {"steampunk", "etherweave"}

CustomDescriptions == {"Victorian-era steam-powered internet"}

CustomScenarios == {"", "Brass telegraph engines carry every message ..."}

Paths == {"/", "/com/news/main"}

\* the image names requested: without an extension, with the extensions save_image
\* knows (in either case), with another extension, and with a dot in the name
ImageNames ==
    { <<"c">>, <<"c", ".", "p", "n", "g">>, <<"c", ".", "J", "P", "G">>,
      <<"c", ".", "g", "i", "f">>, <<"v", ".", "2">> }

\* what the image-generation capability may answer
Subscriptions ==
    {Subscribed(TRUE, NotADict)}
    \cup {Subscribed(FALSE, r) : r \in
            {ImagesResult(<<UrlItem(TRUE, <<c>>)>>) : c \in Contents}
            \cup {ImagesResult(<<StrItem(<<NotB64, B64(<<c>>)>>)>>) : c \in Contents}
            \cup {ImageResult(StrItem(<<B64(<<c>>)>>)) : c \in Contents}
            \cup {ImagesResult(<<UrlItem(FALSE, <<>>)>>), SingleImagesResult(OtherItem("int")),
                  EmptyResult}}

\* the templates directory as the process finds it when it starts: empty (a first
\* run), or left by earlier runs with a custom scenario and a damaged etherweave.json
InitialDirs ==
    { EmptyDict,
      [f \in {"steampunk", "etherweave"} |->
          IF f = "etherweave"
          THEN CorruptFile
          ELSE JsonFile(ScenarioTemplate("steampunk", "Victorian-era steam-powered internet",
                                         "Brass telegraph engines carry every message ..."))] }

\* the orders os.listdir may return the files in: one ranking and its reverse, so
\* that every two files are met in both orders
ListdirOrders ==
    { <<"etherweave", "cyberpunk", "solarpunk", "retrofuturist", "steampunk">>,
      <<"steampunk", "retrofuturist", "solarpunk", "cyberpunk", "etherweave">> }

-----------------------------------------------------------------------------
(* The Conversation Engine and its Scenario Store *)

\* main.py line 8: chat = Chat(scenario_name="etherweave"), with CerebrasLMClient
Init ==
    \E dir \in InitialDirs, order \in ListdirOrders :
        LET c == Chat(dir, order, None, "etherweave")
        IN  /\ templates_dir = c.templates_dir
            /\ scenarios = c.scenarios
            /\ scenario_description = c.scenario_description
            /\ conversation = c.conversation
            /\ lm_client = "CerebrasLMClient"
            /\ cache_dir = EmptyDict
            /\ stdout = c.stdout
            /\ ret = c.ret
            /\ requests = NoRequests

\* a new Chat over the directory as it now is (the process starts again)
NewChat ==
    \E order \in ListdirOrders, description \in ScenarioDescriptions, name \in ScenarioNames :
        LET c == Chat(templates_dir, order, description, name)
        IN  /\ templates_dir' = c.templates_dir
            /\ scenarios' = c.scenarios
            /\ scenario_description' = c.scenario_description
            /\ conversation' = c.conversation
            /\ stdout' = c.stdout
            /\ ret' = c.ret
            /\ UNCHANGED <<lm_client, cache_dir, requests>>

BrowseToPage ==
    /\ Len(conversation) <= MaxTurns
    /\ \E path \in Paths, completion \in Completions :
        LET b == browse_to_page(conversation, lm_client, path, completion)
        IN  /\ conversation' = b.conversation
            /\ stdout' = b.stdout
            /\ ret' = b.ret
    /\ UNCHANGED <<templates_dir, scenarios, scenario_description, lm_client,
                   cache_dir, requests>>

AddCustomScenario ==
    \E name \in CustomNames, description \in CustomDescriptions, scenario \in CustomScenarios :
        LET sm == add_custom_scenario(Manager(templates_dir, scenarios, <<>>),
                                      name, description, scenario)
        IN  /\ templates_dir' = sm.dir
            /\ scenarios' = sm.scenarios
            /\ stdout' = sm.out
            /\ ret' = Returned("add_custom_scenario", <<name, description, scenario>>,
                               ScenarioTemplate(name, description, scenario))
            /\ UNCHANGED <<scenario_description, conversation, lm_client,
                           cache_dir, requests>>

ChangeScenario ==
    \E name \in ScenarioNames, description \in ScenarioDescriptions :
        LET c == change_scenario(scenarios, scenario_description, conversation,
                                 name, description)
        IN  /\ scenario_description' = c.scenario_description
            /\ conversation' = c.conversation
            /\ stdout' = c.stdout
            /\ ret' = c.ret
            /\ UNCHANGED <<templates_dir, scenarios, lm_client, cache_dir, requests>>

Next ==
    \/ NewChat
    \/ BrowseToPage
    \/ AddCustomScenario
    \/ ChangeScenario

Spec == Init /\ [][Next]_vars

-----------------------------------------------------------------------------
(* The Asset Cache Engine *)

\* main.py lines 8-9 on a first run: the templates directory and the cache are empty
InitCache ==
    LET c == Chat(EmptyDict, <<"etherweave", "cyberpunk", "solarpunk", "retrofuturist">>,
                  None, "etherweave")
    IN  /\ templates_dir = c.templates_dir
        /\ scenarios = c.scenarios
        /\ scenario_description = c.scenario_description
        /\ conversation = c.conversation
        /\ lm_client = "CerebrasLMClient"
        /\ cache_dir = EmptyDict
        /\ stdout = <<>>
        /\ ret = Returned("ImageGenerator", <<CacheDirName>>, None)
        /\ requests = NoRequests

GetOrGenerateImage ==
    \E image_name \in ImageNames, subscribed \in Subscriptions :
        LET r == get_or_generate_image(cache_dir, image_name, subscribed)
        IN  /\ cache_dir' = r.files
            /\ stdout' = r.out
            /\ ret' = ImageReturn("get_or_generate_image", image_name, r)
            /\ UNCHANGED chatVars

GetImageAsBase64 ==
    \E image_name \in ImageNames, subscribed \in Subscriptions :
        LET r == get_image_as_base64(cache_dir, image_name, subscribed)
        IN  /\ cache_dir' = r.files
            /\ stdout' = r.out
            /\ ret' = [ImageReturn("get_image_as_base64", image_name, r)
                          EXCEPT !.value = [uri |-> r.value, path |-> r.path]]
            /\ UNCHANGED chatVars

NextCache ==
    \/ GetOrGenerateImage
    \/ GetImageAsBase64

SpecCache == InitCache /\ [][NextCache]_vars

-----------------------------------------------------------------------------
(* Properties of the Conversation Engine, checked under Spec *)

\* the strings of a message's content
Pieces(content) == {content[i] : i \in 1..Len(content)}

\* a printed line saying that a scenario was not found
IsNotFound(line) == Len(line) = 3 /\ line[1] = "Scenario '"

NotFoundCount(out) == Cardinality({i \in 1..Len(out) : IsNotFound(out[i])})

\* the name is one a caller gave and the store does not hold
Missing(name) == Truthy(name) /\ name \notin DOMAIN scenarios

\* the default scenario's text, given the store
DefaultText ==
    IF "etherweave" \in DOMAIN scenarios
    THEN scenarios["etherweave"].scenario
    ELSE "A fictional alternative internet"

\* C1: a browse_to_page that returns leaves the transcript it found, followed by
\* a user turn naming the path and an assistant turn holding the text returned.
C1_NavigateAppendsUserThenAssistant ==
    [][(ret'.op = "browse_to_page" /\ ~ret'.raised) =>
          /\ Len(conversation') = Len(conversation) + 2
          /\ SubSeq(conversation', 1, Len(conversation)) = conversation
          /\ conversation'[Len(conversation) + 1].role = "user"
          /\ ret'.args[1] \in Pieces(conversation'[Len(conversation) + 1].content)
          /\ conversation'[Len(conversation) + 2] = Message("assistant", <<ret'.value>>)]_vars

\* a second navigation has returned, after a first one that returned too
C1_Witness ==
    /\ ret.op = "browse_to_page" /\ ~ret.raised
    /\ Len(conversation) = 5
    /\ conversation[3].role = "assistant"

\* C2: whenever change_scenario has returned True, the transcript is a single
\* system turn.
C2_SwitchLeavesOnlySystemTurn ==
    (ret.op = "change_scenario" /\ ret.value = TRUE) =>
        Len(conversation) = 1 /\ conversation[1].role = "system"

\* a switch by name has returned True
C2_Witness ==
    /\ ret.op = "change_scenario" /\ ret.value = TRUE
    /\ ret.args[1] = "steampunk"
    /\ scenario_description = "Brass telegraph engines carry every message ..."

\* C3: the transcript always holds exactly one system turn, and it is the first.
C3_OneSystemTurnFirst ==
    /\ Len(conversation) >= 1
    /\ conversation[1].role = "system"
    /\ \A i \in 2..Len(conversation) : conversation[i].role # "system"

\* a navigation has failed after an earlier one succeeded
C3_Witness ==
    /\ ret.op = "browse_to_page" /\ ret.raised
    /\ Len(conversation) = 4

\* C4 as claimed: after change_scenario with a name the store does not hold, the
\* transcript is the single system turn of the default scenario.
C4_MissingNameFallsBackToDefault ==
    (ret.op = "change_scenario" /\ Missing(ret.args[1])) =>
        /\ scenario_description = DefaultText
        /\ conversation = <<Message("system", get_system_prompt(DefaultText))>>

\* C4 as amended: change_scenario with a name the store does not hold returns
\* False, prints one "not found" line, and leaves the transcript and the active
\* scenario description as they were.
C4_MissingNameChangesNothing ==
    [][(ret'.op = "change_scenario" /\ Missing(ret'.args[1])) =>
          /\ ret'.value = FALSE
          /\ NotFoundCount(stdout') = 1
          /\ conversation' = conversation
          /\ scenario_description' = scenario_description]_vars

\* a switch to a missing name has returned, with a navigation in the transcript
C4_Witness ==
    /\ ret.op = "change_scenario" /\ ret.args[1] = "atlantis"
    /\ Len(conversation) >= 3
    /\ scenario_description # DefaultText

\* C5 as claimed: wherever a scenario name is resolved (the constructor,
\* change_scenario), a name the store does not hold resolves to the default
\* scenario's text, with exactly one "not found" line and no exception.
C5_MissingNameResolvesToDefault ==
    (ret.op \in {"Chat", "change_scenario"}
       /\ Missing(IF ret.op = "Chat" THEN ret.args[2] ELSE ret.args[1])) =>
        /\ ~ret.raised
        /\ scenario_description = DefaultText
        /\ NotFoundCount(stdout) = 1

\* C5 as amended: the constructor resolves a name the store does not hold to the
\* default scenario's text, with exactly one "not found" line and no exception;
\* change_scenario prints exactly one "not found" line too and does not raise,
\* but resolves nothing and returns False.
C5_ConstructorResolvesMissingNameToDefault ==
    /\ (ret.op = "Chat" /\ Missing(ret.args[2])) =>
          /\ ~ret.raised
          /\ scenario_description = DefaultText
          /\ conversation = <<Message("system", get_system_prompt(DefaultText))>>
          /\ NotFoundCount(stdout) = 1
    /\ (ret.op = "change_scenario" /\ Missing(ret.args[1])) =>
          /\ ~ret.raised
          /\ ret.value = FALSE
          /\ NotFoundCount(stdout) = 1

\* an engine was built for a missing name over a store without etherweave
C5_Witness ==
    /\ ret.op = "Chat" /\ ret.args[2] = "atlantis"
    /\ "etherweave" \notin DOMAIN scenarios
    /\ scenario_description = "A fictional alternative internet"

-----------------------------------------------------------------------------
(* Properties of the Asset Cache Engine, checked under SpecCache *)

\* the last call was get_or_generate_image, and it returned a path
Got == ret.op = "get_or_generate_image" /\ ~ret.raised

\* C6 as claimed: after a get_or_generate_image that missed and returned, the
\* same call again does not call the capability and returns the same path.
C6_SecondCallIsAHit ==
    [][(Got /\ ret.calls = 1 /\ ret'.op = "get_or_generate_image" /\ ret'.args = ret.args) =>
          /\ ~ret'.raised
          /\ ret'.calls = 0
          /\ ret'.value = ret.value]_vars

\* C7 as claimed: no call changes or removes a file of the cache.
C7_CacheIsWriteOnce ==
    [][\A path \in DOMAIN cache_dir :
          path \in DOMAIN cache_dir' /\ cache_dir'[path] = cache_dir[path]]_vars

\* C8 as claimed: the path get_or_generate_image returns is the path it tested
\* for a hit, and a file is there.
C8_ReturnedPathIsTestedPath ==
    Got =>
        /\ ret.value = image_path(ret.args[1])
        /\ ret.value \in DOMAIN cache_dir

\* C9: when the file at the tested path exists, get_or_generate_image returns
\* that path, does not call the capability and leaves every file as it was.
C9_HitReturnsWithoutGenerating ==
    [][(ret'.op = "get_or_generate_image" /\ image_path(ret'.args[1]) \in DOMAIN cache_dir) =>
          /\ ~ret'.raised
          /\ ret'.calls = 0
          /\ ret'.value = image_path(ret'.args[1])
          /\ cache_dir' = cache_dir]_vars

\* a call has hit the cache
C9_Witness == Got /\ ret.calls = 0 /\ ret.value \in DOMAIN cache_dir

\* the name has no extension: no dot after its first character
NoExtension(image_name) == \A i \in 2..Len(image_name) : image_name[i] # "."

\* C10: for a name without an extension, get_image_as_base64 reads the file
\* <cache_dir>/<name>.png and labels it image/png; for every name the MIME type
\* is image/jpeg exactly when the path read ends in .jpg or .jpeg.
C10_ExtensionAndMimeAgree ==
    (ret.op = "get_image_as_base64" /\ ~ret.raised) =>
        /\ NoExtension(ret.args[1]) =>
              /\ ret.value.path = CacheDirName \o <<"/">> \o ret.args[1] \o DotPng
              /\ ret.value.uri.mime = "image/png"
        /\ ret.value.path \in DOMAIN cache_dir
        /\ ret.value.uri.encoded = B64(cache_dir[ret.value.path])
        /\ ret.value.uri.mime \in {"image/jpeg", "image/png"}
        /\ ret.value.uri.mime = "image/jpeg" <=>
              \/ endswith(lower(ret.value.path), DotJpg)
              \/ endswith(lower(ret.value.path), DotJpeg)

\* a name without an extension was generated and returned as a data URI
C10_Witness ==
    /\ ret.op = "get_image_as_base64" /\ ~ret.raised
    /\ ret.args[1] = <<"c">>
    /\ ret.calls = 1

\* The reasons save_image gives up on a response: a shape it does not know, a
\* download that fails, text that is not base64
SaveErrors ==
    {"requests.HTTPError", "binascii.Error: Incorrect padding",
     "IndexError: list index out of range", "Unsupported image format",
     "Unexpected image format", "Failed to extract image data from response"}

\* C11: a get_or_generate_image call whose response cannot be turned into
\* image bytes (unknown shape, failed download) raises to its caller after a
\* single call of the capability, writes no file and leaves the cache as it
\* was, so the path it tested is still absent and the next call misses again.
C11_FailedSavePersistsNothing ==
    [][(/\ ret'.op = "get_or_generate_image"
        /\ ret'.raised
        /\ ret'.error \in SaveErrors)
       => (/\ ret'.calls = 1
           /\ cache_dir' = cache_dir
           /\ image_path(ret'.args[1]) \notin DOMAIN cache_dir')]_vars

\* a response of unknown shape was refused while the cache held other images
C11_Witness ==
    /\ ret.op = "get_or_generate_image" /\ ret.raised
    /\ ret.error = "Failed to extract image data from response"
    /\ ret.calls = 1
    /\ DOMAIN cache_dir # {}
    /\ image_path(ret.args[1]) \notin DOMAIN cache_dir

\* The number of assistant turns of a transcript
RECURSIVE AssistantTurns(_)
AssistantTurns(conv) ==
    IF conv = <<>> THEN 0
    ELSE (IF Head(conv).role = "assistant" THEN 1 ELSE 0) + AssistantTurns(Tail(conv))

\* C12: when the Generation Client fails during browse_to_page, the failure
\* reaches the caller: the client was called exactly once, no assistant turn
\* was appended, no page text is returned and "Generated page." is not printed.
C12_ClientFailurePropagates ==
    [][(ret'.op = "browse_to_page" /\ ret'.raised)
       => (/\ ret'.calls = 1
           /\ ret'.value = None
           /\ AssistantTurns(conversation') = AssistantTurns(conversation)
           /\ conversation'[Len(conversation')].role # "assistant"
           /\ stdout' = <<>>)]_vars

\* a navigation failed after an earlier one had succeeded
C12_Witness ==
    /\ ret.op = "browse_to_page" /\ ret.raised /\ ret.calls = 1
    /\ AssistantTurns(conversation) = 1
    /\ conversation[Len(conversation)].role = "user"

\* C13: an add makes get(name) return the template just added, whatever the
\* store held under that name, and leaves get(n) as it was for every other
\* name; no other operation changes what get returns; and a ScenarioManager
\* newly constructed on the same directory, in whatever order the files are
\* listed, holds the same template for every name.
C13_LastWriteWinsAndPersists ==
    [][/\ ret'.op = "add_custom_scenario"
          => /\ get_scenario(scenarios', ret'.args[1])
                   = ScenarioTemplate(ret'.args[1], ret'.args[2], ret'.args[3])
             /\ \A n \in (DOMAIN scenarios \cup DOMAIN scenarios') \ {ret'.args[1]} :
                   get_scenario(scenarios', n) = get_scenario(scenarios, n)
       /\ ret'.op # "add_custom_scenario" => scenarios' = scenarios
       /\ \A order \in ListdirOrders :
             ScenarioManager(templates_dir', order).scenarios = scenarios']_vars

\* a second add under "steampunk" replaced the stored text, in memory and on
\* disk, while the custom "etherweave" added before is as it was
C13_Witness ==
    /\ ret.op = "add_custom_scenario"
    /\ ret.args = <<"steampunk", "Victorian-era steam-powered internet", "">>
    /\ get_scenario(scenarios, "steampunk").scenario = ""
    /\ templates_dir["steampunk"] = JsonFile(get_scenario(scenarios, "steampunk"))
    /\ get_scenario(scenarios, "etherweave").scenario
          = "Brass telegraph engines carry every message ..."
    /\ "cyberpunk" \notin DOMAIN scenarios

\* C14: the default scenarios are created only when a ScenarioManager is
\* constructed on a directory without records. Constructing one on a directory
\* that holds records writes no file: every record, a custom one named like a
\* default included, is as it was, and the store holds one entry per
\* well-formed record and no other.
C14_SeedingOnlyWhenEmpty ==
    [][ret'.op = "Chat"
       => /\ templates_dir' # templates_dir => DOMAIN templates_dir = {}
          /\ DOMAIN templates_dir # {}
             => /\ DOMAIN scenarios' \subseteq DOMAIN templates_dir
                /\ \A f \in DOMAIN templates_dir :
                      /\ templates_dir[f].ok => scenarios'[f] = templates_dir[f].data
                      /\ ~templates_dir[f].ok => f \notin DOMAIN scenarios']_vars

\* a Chat was constructed on a directory holding a custom "etherweave": the
\* custom text is still the stored one and no default scenario was written
C14_Witness ==
    /\ ret.op = "Chat"
    /\ DOMAIN templates_dir = {"steampunk", "etherweave"}
    /\ templates_dir["etherweave"].ok
    /\ templates_dir["etherweave"].data.scenario
          = "Brass telegraph engines carry every message ..."
    /\ scenarios["etherweave"] = templates_dir["etherweave"].data

-----------------------------------------------------------------------------
(* Loading the Scenario Store from a directory of records *)

\* the names of the record files a directory may hold
StoreFileNames ==
    {(<<"etherweave", "steampunk", "cyberpunk", "atlantis", "solarpunk">>)[i] : i \in 1..MaxFiles}

\* the record <name>.json as _save_scenario writes it
StoredTemplate(name) ==
    CASE name = "etherweave" -> etherweave
      [] name = "cyberpunk"  -> cyberpunk
      [] name = "solarpunk"  -> solarpunk
      [] OTHER -> ScenarioTemplate(name, "A custom scenario",
                                   "Brass telegraph engines carry every message ...")

\* the directories with at least one record, each record as it was written or
\* damaged since
StoreDirs ==
    UNION { [d -> {"ok", "corrupt"}] : d \in (SUBSET StoreFileNames) \ {{}} }

StoreDir(kinds) ==
    [f \in DOMAIN kinds |->
        IF kinds[f] = "ok" THEN JsonFile(StoredTemplate(f)) ELSE CorruptFile]

\* every order in which os.listdir may return the files
StoreOrders ==
    {order \in [1..MaxFiles -> StoreFileNames] :
        \A i, j \in 1..MaxFiles : order[i] = order[j] => i = j}

\* a directory of records, before a ScenarioManager is constructed on it; the
\* order os.listdir will use is the environment's choice
InitStore ==
    \E kinds \in StoreDirs, order \in StoreOrders :
        /\ templates_dir = StoreDir(kinds)
        /\ scenarios = EmptyDict
        /\ scenario_description = None
        /\ conversation = <<>>
        /\ lm_client = "CerebrasLMClient"
        /\ cache_dir = EmptyDict
        /\ stdout = <<>>
        /\ ret = Returned("os.listdir", <<>>, order)
        /\ requests = NoRequests

\* ScenarioManager.__init__ on the directory
LoadScenarios ==
    /\ ret.op = "os.listdir"
    /\ LET sm == ScenarioManager(templates_dir, ret.value)
       IN  /\ templates_dir' = sm.dir
           /\ scenarios' = sm.scenarios
           /\ stdout' = sm.out
           /\ ret' = Returned("ScenarioManager", <<ret.value>>, None)
    /\ UNCHANGED <<scenario_description, conversation, lm_client, cache_dir, requests>>

NextStore == LoadScenarios

SpecStore == InitStore /\ [][NextStore]_vars

\* the well-formed records of a directory
WellFormed(dir) == {f \in DOMAIN dir : dir[f].ok}

\* C15: whatever files are damaged and wherever os.listdir puts them, loading
\* skips each damaged record with one printed line and loads every other one:
\* the store holds exactly the well-formed records of the directory.
C15_CorruptRecordsAreSkipped ==
    ret.op = "ScenarioManager"
    => /\ DOMAIN scenarios = WellFormed(templates_dir)
       /\ \A f \in WellFormed(templates_dir) : scenarios[f] = templates_dir[f].data
       /\ Len(stdout) = Cardinality(DOMAIN templates_dir \ WellFormed(templates_dir))
       /\ \A i \in 1..Len(stdout) :
             /\ stdout[i][1] = "Error loading scenario "
             /\ ~templates_dir[stdout[i][2]].ok

\* the file listed first was damaged, and the two records listed after it
\* were loaded
C15_Witness ==
    /\ ret.op = "ScenarioManager"
    /\ ret.args[1][1] \in DOMAIN templates_dir
    /\ ~templates_dir[ret.args[1][1]].ok
    /\ Cardinality(DOMAIN scenarios) >= 2

\* C16: when add_custom_scenario(name, ..) is followed by change_scenario(name),
\* the transcript is the one system turn built from the text just added, not
\* from the scenario active before; and the browse_to_page(path) that follows a
\* change_scenario appends, after the turns there, the user turn built from
\* that path and no other.
C16_SwitchToAddedScenarioThenNavigate ==
    [][/\ (/\ ret.op = "add_custom_scenario"
           /\ ret'.op = "change_scenario"
           /\ ret'.args[1] = ret.args[1])
          => /\ conversation'[1] = Message("system", get_system_prompt(ret.args[3]))
             /\ scenario_description' = ret.args[3]
       /\ (ret.op = "change_scenario" /\ ret'.op = "browse_to_page")
          => /\ Len(conversation') > Len(conversation)
             /\ conversation'[Len(conversation) + 1]
                   = Message("user", browse_prompt(ret'.args[1]))
             /\ Pieces(conversation'[Len(conversation) + 1].content) \cap Paths
                   = {ret'.args[1]}
             /\ conversation'[1] = conversation[1]]_vars

\* The same two steps when the text added is not empty: then the switch does
\* reset the transcript to the added scenario
C16_NonEmptyTextIsSwitchedTo ==
    [][(/\ ret.op = "add_custom_scenario"
        /\ Truthy(ret.args[3])
        /\ ret'.op = "change_scenario"
        /\ ret'.args[1] = ret.args[1])
       => /\ conversation' = <<Message("system", get_system_prompt(ret.args[3]))>>
          /\ scenario_description' = ret.args[3]]_vars

\* C17: constructing a Chat resolves its scenario without an error for every
\* combination of name and description: a name the store holds gives that
\* scenario's text, whatever description came with it; no name and a
\* description give the description; neither gives the default text (the
\* stored "etherweave" text, else the literal); the result is always a
\* string, from which the system turn is built.
C17_ResolutionIsTotal ==
    ret.op = "Chat"
    => /\ ~ret.raised
       /\ scenario_description # None
       /\ (Truthy(ret.args[2]) /\ ret.args[2] \in DOMAIN scenarios)
          => scenario_description = scenarios[ret.args[2]].scenario
       /\ (~Truthy(ret.args[2]) /\ Truthy(ret.args[1]))
          => scenario_description = ret.args[1]
       /\ (~Truthy(ret.args[2]) /\ ~Truthy(ret.args[1]))
          => scenario_description = DefaultText
       /\ conversation = <<Message("system", get_system_prompt(scenario_description))>>

\* a Chat was constructed with both a stored name and a description, and
\* started with the stored text
C17_Witness ==
    /\ ret.op = "Chat"
    /\ ret.args = <<"A drowned city's network of singing shells", "steampunk">>
    /\ "steampunk" \in DOMAIN scenarios
    /\ scenario_description = scenarios["steampunk"].scenario
    /\ scenario_description # ret.args[1]

-----------------------------------------------------------------------------
(* Turning the response of the image-generation capability into image bytes *)

\* the base64 texts between the commas of a str
Texts == {NotB64} \cup {B64(<<c>>) : c \in Contents}

\* the strs of at most MaxCommas commas, each as its pieces between the commas
Strs == UNION {[1..n -> Texts] : n \in 1..(MaxCommas + 1)}

\* what an entry of 'images' (or the value of 'image') may be
Entries ==
    {UrlItem(TRUE, <<c>>) : c \in Contents}
    \cup {UrlItem(FALSE, <<>>), OtherItem("int"), OtherItem("dict")}
    \cup {StrItem(parts) : parts \in Strs}

\* the entries after the first of a longer 'images' list
RestEntries == {UrlItem(TRUE, <<1>>), StrItem(<<B64(<<1>>)>>)}

\* a response with both an 'images' list and an 'image' field
BothResult(images_list, image) ==
    Result(TRUE, TRUE, TRUE, images_list, OtherItem("NoneType"), TRUE, image)

\* the values fal_client.subscribe may return
Responses ==
    {NotADict, EmptyResult, ImagesResult(<<>>)}
    \cup {ImagesResult(<<e>>) : e \in Entries}
    \cup {ImagesResult(<<e, r>>) : e \in Entries, r \in RestEntries}
    \cup {SingleImagesResult(e) : e \in Entries}
    \cup {ImageResult(e) : e \in Entries}
    \cup {BothResult(<<e>>, StrItem(<<B64(<<1>>)>>)) : e \in Entries}

\* an ImageGenerator with an empty cache, and the value the capability is about
\* to return to it
InitNormalize ==
    \E result \in Responses :
        /\ templates_dir = EmptyDict
        /\ scenarios = EmptyDict
        /\ scenario_description = None
        /\ conversation = <<>>
        /\ lm_client = "CerebrasLMClient"
        /\ cache_dir = EmptyDict
        /\ stdout = <<>>
        /\ ret = Returned("fal_client.subscribe", <<>>, result)
        /\ requests = NoRequests

\* get_or_generate_image on the empty cache, the capability returning that value
SaveSubscribed ==
    /\ ret.op = "fal_client.subscribe"
    /\ \E image_name \in ImageNames :
          LET r == get_or_generate_image(cache_dir, image_name, Subscribed(FALSE, ret.value))
          IN  /\ cache_dir' = r.files
              /\ stdout' = r.out
              /\ ret' = ImageReturn("get_or_generate_image", image_name, r)
    /\ UNCHANGED chatVars

NextNormalize == SaveSubscribed

SpecNormalize == InitNormalize /\ [][NextNormalize]_vars

\* the image entries a response carries: the 'images' list, or the one value
\* of 'images' that generate_image puts in a list
CarriedEntries(result) ==
    IF result.images_is_list THEN result.images_list ELSE <<result.images_value>>

\* what the first entry is to give: the download of an object with a url, the
\* decoding of what follows the first comma of a str with a comma, the
\* decoding of any other str, and a failure otherwise
FirstEntryContent(entry) ==
    IF entry.type = "dict" /\ entry.has_url
    THEN IF entry.download.ok THEN Content(entry.download.content)
                              ELSE ValueError("download failed")
    ELSE IF entry.type = "str" /\ Len(entry.parts) >= 2
         THEN b64decode_str(Tail(entry.parts))
         ELSE IF entry.type = "str"
              THEN b64decode_str(entry.parts)
              ELSE ValueError("not an image entry")

\* what a response is to give, by the order of priority
NormalizedContent(result) ==
    IF result.is_dict /\ result.has_images
    THEN IF CarriedEntries(result) = <<>>
         THEN ValueError("no entry")
         ELSE FirstEntryContent(CarriedEntries(result)[1])
    ELSE IF result.is_dict /\ result.has_image /\ result.image.type = "str"
         THEN b64decode_str(result.image.parts)
         ELSE ValueError("unknown response")

\* C18: the bytes saved for a response are those of its first image entry
\* when it carries entries (the download of an object with a url, the
\* decoding of the text after the first comma of a str with a comma, the
\* decoding of another str), whatever entries follow; else those decoded from
\* a str 'image' field; and every other response raises and saves nothing.
C18_ResponseIsNormalizedInOrder ==
    [][(ret.op = "fal_client.subscribe" /\ ret'.op = "get_or_generate_image")
       => /\ ret'.raised = NormalizedContent(ret.value).raised
          /\ ret'.raised => cache_dir' = cache_dir
          /\ ~ret'.raised
             => /\ DOMAIN cache_dir' = {ret'.value}
                /\ cache_dir'[ret'.value] = NormalizedContent(ret.value).bytes]_vars

-----------------------------------------------------------------------------
(* Requests served at the same time on the one Chat of main.py: a
   browse_to_page and a change_scenario, each a thread of the server, taking
   their steps in any order *)

InitConcurrent == Init

\* browse_to_page, lines 39-46: the user turn is appended and the Generation
\* Client is called
BrowseAppendUser ==
    /\ requests.browse.pc \in {"idle", "done"}
    /\ Len(conversation) <= MaxTurns
    /\ \E path \in Paths :
          /\ conversation' = do_chat_completion_messages(lm_client,
                                 Append(conversation, Message("user", browse_prompt(path))))
          /\ requests' = [requests EXCEPT !.browse = Browsing("line46", path)]
    /\ UNCHANGED <<templates_dir, scenarios, scenario_description, lm_client,
                   cache_dir, stdout, ret>>

\* browse_to_page, lines 46-54: the Generation Client answers; the assistant
\* turn is appended to the list self.conversation is then
BrowseAppendAssistant ==
    /\ requests.browse.pc = "line46"
    /\ \E completion \in Completions :
          IF completion.raised
          THEN /\ conversation' = conversation
               /\ stdout' = <<>>
               /\ ret' = Called(Raised("browse_to_page", <<requests.browse.path>>), 1)
          ELSE /\ conversation' =
                     Append(conversation, Message("assistant", <<completion.response>>))
               /\ stdout' = << <<"Generated page.">> >>
               /\ ret' = Called(Returned("browse_to_page", <<requests.browse.path>>,
                                         completion.response), 1)
    /\ requests' = [requests EXCEPT !.browse = Browsing("done", requests.browse.path)]
    /\ UNCHANGED <<templates_dir, scenarios, scenario_description, lm_client, cache_dir>>

\* change_scenario, lines 72-82 and 92: the description is resolved; the call
\* returns False here when there is none
ChangeResolve ==
    /\ requests.change.pc \in {"idle", "done"}
    /\ \E name \in ScenarioNames, description \in ScenarioDescriptions :
          LET c == change_scenario(scenarios, scenario_description, conversation,
                                   name, description)
          IN  IF c.ret.value
              THEN /\ requests' = [requests EXCEPT !.change =
                                      Changing("line83", c.ret.args, c.scenario_description)]
                   /\ UNCHANGED <<stdout, ret>>
              ELSE /\ requests' = [requests EXCEPT !.change =
                                      Changing("done", c.ret.args, None)]
                   /\ stdout' = c.stdout
                   /\ ret' = c.ret
    /\ UNCHANGED <<templates_dir, scenarios, scenario_description, conversation,
                   lm_client, cache_dir>>

\* change_scenario, line 83: self.scenario_description = scenario_description
ChangeSetDescription ==
    /\ requests.change.pc = "line83"
    /\ scenario_description' = requests.change.description
    /\ requests' = [requests EXCEPT !.change.pc = "line85"]
    /\ UNCHANGED <<templates_dir, scenarios, conversation, lm_client, cache_dir,
                   stdout, ret>>

\* change_scenario, lines 85-91: self.conversation = [the system turn]; True
ChangeSetConversation ==
    /\ requests.change.pc = "line85"
    /\ conversation' = initial_conversation(requests.change.description)
    /\ stdout' = <<>>
    /\ ret' = Returned("change_scenario", requests.change.args, TRUE)
    /\ requests' = [requests EXCEPT !.change.pc = "done"]
    /\ UNCHANGED <<templates_dir, scenarios, scenario_description, lm_client, cache_dir>>

NextConcurrent ==
    \/ BrowseAppendUser
    \/ BrowseAppendAssistant
    \/ ChangeResolve
    \/ ChangeSetDescription
    \/ ChangeSetConversation

SpecConcurrent == InitConcurrent /\ [][NextConcurrent]_vars

\* no browse_to_page and no change_scenario is between its first and its last line
NoneInFlight ==
    /\ requests.browse.pc \in {"idle", "done"}
    /\ requests.change.pc \in {"idle", "done"}

\* every assistant turn comes right after a user turn
AssistantFollowsUser ==
    \A i \in 1..Len(conversation) :
        conversation[i].role = "assistant" => (i > 1 /\ conversation[i - 1].role = "user")

\* C19: a change_scenario run at the same time as a browse_to_page resets the
\* transcript as one step: when no call is in flight the transcript holds no
\* turn of a navigation begun before the switch (so no assistant turn without
\* the user turn before it), and in every state the system turn is the one
\* built from the recorded scenario_description.
C19_SwitchResetsAtomically ==
    /\ NoneInFlight => AssistantFollowsUser
    /\ conversation[1] = Message("system", get_system_prompt(scenario_description))

-----------------------------------------------------------------------------
(* The prompt made from an image name *)

\* the pieces image names are made of: two words, the separators, the dot
NameTokens ==
    { <<"a", "b", "c", "d">>, <<"e", "f", "g", "h", "i">>,
      <<"-">>, <<"_">>, <<" ">>, <<".">> }

\* the pieces one after the other
RECURSIVE Flatten(_)
Flatten(tokens) == IF tokens = <<>> THEN <<>> ELSE Head(tokens) \o Flatten(Tail(tokens))

\* the image names of at most MaxTokens pieces
TokenNames == {Flatten(tokens) : tokens \in UNION {[1..n -> NameTokens] : n \in 0..MaxTokens}}

\* an ImageGenerator, and the image name a request is about to hand it
InitPrompt ==
    \E image_name \in TokenNames :
        /\ templates_dir = EmptyDict
        /\ scenarios = EmptyDict
        /\ scenario_description = None
        /\ conversation = <<>>
        /\ lm_client = "CerebrasLMClient"
        /\ cache_dir = EmptyDict
        /\ stdout = <<>>
        /\ ret = Returned("os.path.basename", <<>>, image_name)
        /\ requests = NoRequests

\* ImageGenerator.process_image_name on that name
ProcessImageName ==
    /\ ret.op = "os.path.basename"
    /\ ret' = Returned("process_image_name", <<ret.value>>, process_image_name(ret.value))
    /\ UNCHANGED <<chatVars, cache_dir, stdout>>

NextPrompt == ProcessImageName

SpecPrompt == InitPrompt /\ [][NextPrompt]_vars

\* the name without its trailing extension: what follows the last dot, and
\* the dot, when something other than dots comes before it
Stem(name) ==
    LET dots == {i \in 1..Len(name) : name[i] = "."}
        last == CHOOSE i \in dots : \A j \in dots : j <= i
    IN  IF dots # {} /\ (\E k \in 1..Len(name) : k < last /\ name[k] # ".")
        THEN SubSeq(name, 1, last - 1)
        ELSE name

\* the characters that end up as spaces
Separators == {"-", "_", " "}

\* the words of a text: its longest runs of characters that are no separators
RECURSIVE WordsOf(_, _)
WordsOf(text, word) ==
    IF text = <<>>
    THEN IF word = <<>> THEN <<>> ELSE <<word>>
    ELSE IF Head(text) \in Separators
         THEN (IF word = <<>> THEN <<>> ELSE <<word>>) \o WordsOf(Tail(text), <<>>)
         ELSE WordsOf(Tail(text), Append(word, Head(text)))

\* the words with one space between each two
RECURSIVE SpaceJoined(_)
SpaceJoined(words) ==
    IF words = <<>> THEN <<>>
    ELSE IF Len(words) = 1 THEN words[1]
    ELSE words[1] \o <<" ">> \o SpaceJoined(Tail(words))

\* the cleaned text of an image name
Cleaned(name) == SpaceJoined(WordsOf(Stem(name), <<>>))

DetailedIllustrationOf ==
    <<"D", "e", "t", "a", "i", "l", "e", "d", " ", "i", "l", "l", "u", "s", "t", "r", "a",
      "t", "i", "o", "n", " ", "o", "f", " ">>

\* C20: process_image_name returns the name without its trailing extension,
\* with '-' and '_' turned into spaces, runs of spaces made one and the ends
\* trimmed, prefixed with "Detailed illustration of " exactly when that text
\* has fewer than 10 characters; it depends on the name alone and changes
\* neither the engine's state nor the cache and prints nothing.
C20_PromptFromImageName ==
    [][ret'.op = "process_image_name"
       => /\ ret'.value =
                IF Len(Cleaned(ret'.args[1])) < 10
                THEN DetailedIllustrationOf \o Cleaned(ret'.args[1])
                ELSE Cleaned(ret'.args[1])
          /\ UNCHANGED <<chatVars, cache_dir, stdout>>]_vars

\* a name with a dash and an extension whose cleaned text has exactly 10
\* characters was returned without the prefix
C20_Witness ==
    /\ ret.op = "process_image_name"
    /\ ret.args[1] = <<"a", "b", "c", "d", "-", "e", "f", "g", "h", "i", ".", "a", "b", "c", "d">>
    /\ ret.value = <<"a", "b", "c", "d", " ", "e", "f", "g", "h", "i">>

-----------------------------------------------------------------------------
(* Further properties of the Conversation Engine, checked under Spec *)

\* C21: in every state reached by constructions of a Chat, browse_to_page and
\* change_scenario calls run one after the other, the content of the first
\* turn is get_system_prompt of the recorded scenario_description, and that
\* description is one of its pieces, unaltered.
C21_SystemTurnEncodesRecordedScenario ==
    /\ Len(conversation) >= 1
    /\ conversation[1].content = get_system_prompt(scenario_description)
    /\ scenario_description \in Pieces(conversation[1].content)

\* a switch by description was followed by a navigation, and the system turn
\* still carries the description switched to
C21_Witness ==
    /\ ret.op = "browse_to_page" /\ ~ret.raised
    /\ Len(conversation) = 3
    /\ scenario_description = "A drowned city's network of singing shells"
    /\ conversation[1].content[2] = "A drowned city's network of singing shells"

\* after the system turn, the turns are user, assistant, user, assistant, ...
StrictlyAlternates(conv) ==
    \A i \in 2..Len(conv) :
        conv[i].role = IF i % 2 = 0 THEN "user" ELSE "assistant"

\* C22: a browse_to_page in which the Generation Client raises leaves the
\* transcript exactly as it was before the call, so after any navigations,
\* failed or not, the turns after the system turn alternate user, assistant.
C22_FailedNavigateLeavesTranscript ==
    [][/\ (ret'.op = "browse_to_page" /\ ret'.raised) => conversation' = conversation
       /\ StrictlyAlternates(conversation')]_vars

-----------------------------------------------------------------------------
(* main.py: the route that serves every path *)

\* os.path.basename(p)
basename(p) == SubSeq(p, rfind(p, "/") + 1, Len(p))

\* line 160
image_extensions ==
    { <<".", "j", "p", "g">>, <<".", "j", "p", "e", "g">>, <<".", "p", "n", "g">>,
      <<".", "g", "i", "f">>, <<".", "w", "e", "b", "p">> }

\* line 161: the path ends with an image extension
is_image_path(path) == \E ext \in image_extensions : endswith(lower(path), ext)

\* the paths requested: the root, the admin page, a page, and images
RoutePaths ==
    { <<>>, <<"a", "d", "m", "i", "n">>, <<"c", "o", "m", "/", "n", "e", "w", "s">>,
      <<"i", "m", "g", "/", "c", ".", "p", "n", "g">>,
      <<"i", "m", "g", "/", "c", ".", "g", "i", "f">> }

\* the outcome of catch_all: what it returned, and whether it called
\* chat.browse_to_page
Routed(path, raised, value, navigated) ==
    [op |-> "catch_all", args |-> <<path>>, raised |-> raised, value |-> value,
     navigated |-> navigated]

\* catch_all, lines 176-177: chat.browse_to_page('/' + path)
catch_all_page(conv, client, files, path, completion, out) ==
    LET b == browse_to_page(conv, client, <<"/">> \o path, completion)
    IN  [conversation |-> b.conversation,
         files        |-> files,
         stdout       |-> out \o b.stdout,
         ret          |-> Routed(path, b.ret.raised, b.ret.value, TRUE)]

\* catch_all, lines 144-177
catch_all(conv, client, files, path, subscribed, completion) ==
    IF path = <<"a", "d", "m", "i", "n">>
    THEN [conversation |-> conv, files |-> files, stdout |-> <<>>,
          ret |-> Routed(path, FALSE, "TEMPLATE", FALSE)]
    ELSE IF is_image_path(path)
         THEN LET prompt == <<"Generating image for: ", process_image_name(basename(path))>>
                  r == get_or_generate_image(files, basename(path), subscribed)
              IN  IF ~r.raised
                  THEN [conversation |-> conv, files |-> r.files,
                        stdout |-> <<prompt>> \o r.out,
                        ret |-> Routed(path, FALSE, r.value, FALSE)]
                  ELSE catch_all_page(conv, client, files, path, completion,
                           <<prompt>> \o r.out \o << <<"Error generating image: ", r.error>> >>)
         ELSE catch_all_page(conv, client, files, path, completion, <<>>)

\* main.py lines 8-9: the chat and the image generator of the module
InitRoutes == InitCache

CatchAll ==
    /\ Len(conversation) <= MaxTurns
    /\ \E path \in RoutePaths, subscribed \in Subscriptions, completion \in Completions :
          LET c == catch_all(conversation, lm_client, cache_dir, path, subscribed, completion)
          IN  /\ conversation' = c.conversation
              /\ cache_dir' = c.files
              /\ stdout' = c.stdout
              /\ ret' = c.ret
    /\ UNCHANGED <<templates_dir, scenarios, scenario_description, lm_client, requests>>

NextRoutes == CatchAll

SpecRoutes == InitRoutes /\ [][NextRoutes]_vars

\* C23: a request for a path with an image extension is served by the image
\* generator alone: whether the image is retrieved or not, catch_all does not
\* call browse_to_page and the transcript is as it was.
C23_ImageRequestLeavesConversation ==
    [][(ret'.op = "catch_all" /\ is_image_path(ret'.args[1]))
       => /\ ~ret'.navigated
          /\ conversation' = conversation]_vars

-----------------------------------------------------------------------------
(* The Conversation Engine with either Generation Client of the repository *)

\* chat.py lines 10-11: the client Chat is built with, and the one the
\* commented line selects
LMClients == {"CerebrasLMClient", "OpenAILMClient"}

InitClient ==
    \E client \in LMClients :
        LET c == Chat(EmptyDict, <<"etherweave", "cyberpunk", "solarpunk", "retrofuturist">>,
                      None, "etherweave")
        IN  /\ templates_dir = c.templates_dir
            /\ scenarios = c.scenarios
            /\ scenario_description = c.scenario_description
            /\ conversation = c.conversation
            /\ lm_client = client
            /\ cache_dir = EmptyDict
            /\ stdout = c.stdout
            /\ ret = c.ret
            /\ requests = NoRequests

NextClient ==
    \/ BrowseToPage
    \/ ChangeScenario

SpecClient == InitClient /\ [][NextClient]_vars

\* C24: calling the Generation Client with the transcript changes no turn
\* that was there, neither its role nor its content; in particular the first
\* turn has the role system after every completion.
C24_ClientLeavesTranscript ==
    [][ret'.op = "browse_to_page"
       => /\ \A i \in 1..Len(conversation) : conversation'[i] = conversation[i]
          /\ conversation'[1].role = "system"]_vars

\* C25: change_scenario returns True exactly when it has reinitialized the
\* transcript: after True the transcript is the one system turn of the
\* description now recorded; after False the transcript and the recorded
\* description are what they were before the call.
C25_TrueIffReinitialized ==
    [][ret'.op = "change_scenario"
       => /\ ret'.value \in BOOLEAN
          /\ ret'.value
             => conversation' = initial_conversation(scenario_description')
          /\ ~ret'.value
             => /\ conversation' = conversation
                /\ scenario_description' = scenario_description]_vars

\* a switch to a name the store does not hold returned False and left a
\* transcript of three turns as it was
C25_Witness ==
    /\ ret.op = "change_scenario"
    /\ ret.value = FALSE
    /\ ret.args[1] = "atlantis"
    /\ Len(conversation) = 3
    /\ conversation[3].role = "assistant"

\* C26: change_scenario with a name the store holds, whatever the fields of
\* the stored template (an empty scenario text included), returns True and
\* leaves the transcript as the one system turn built from that text.
C26_StoredNameIsSwitchedTo ==
    [][(/\ ret'.op = "change_scenario"
        /\ ret'.args[1] \in DOMAIN scenarios)
       => /\ ret'.value = TRUE
          /\ conversation' = initial_conversation(scenarios[ret'.args[1]].scenario)
          /\ scenario_description' = scenarios[ret'.args[1]].scenario]_vars

-----------------------------------------------------------------------------
(* Image requests served at the same time on the one ImageGenerator of
   main.py: each a thread of the server running get_or_generate_image *)

\* the threads serving image requests
Fetchers == {1, 2}

\* A call of get_or_generate_image in flight: the line it is at, its image
\* name, and how it ended ("hit", "saved", "raised", or "" while it runs)
Fetching(pc, image_name, outcome) ==
    [pc |-> pc, image_name |-> image_name, outcome |-> outcome]

\* the names requested: two that share a destination, and another
MissNames == { <<"c">>, <<"c", ".", "p", "n", "g">>, <<"c", ".", "J", "P", "G">> }

InitMisses ==
    LET c == Chat(EmptyDict, <<"etherweave", "cyberpunk", "solarpunk", "retrofuturist">>,
                  None, "etherweave")
    IN  /\ templates_dir = c.templates_dir
        /\ scenarios = c.scenarios
        /\ scenario_description = c.scenario_description
        /\ conversation = c.conversation
        /\ lm_client = "CerebrasLMClient"
        /\ cache_dir = EmptyDict
        /\ stdout = <<>>
        /\ ret = Returned("ImageGenerator", <<CacheDirName>>, None)
        /\ requests = [t \in Fetchers |-> Fetching("idle", <<>>, "")]

\* the outcome of a get_or_generate_image call, with the bytes it wrote
Fetched(image_name, raised, value, calls, error, written) ==
    [op |-> "get_or_generate_image", args |-> <<image_name>>, raised |-> raised,
     value |-> value, calls |-> calls, error |-> error, written |-> written]

\* get_or_generate_image, lines 157-171: the cached file is returned, or on a
\* miss the image-generation capability is called
ImageCheck(t) ==
    /\ requests[t].pc \in {"idle", "done"}
    /\ \E image_name \in MissNames :
          IF image_path(image_name) \in DOMAIN cache_dir
          THEN /\ requests' = [requests EXCEPT ![t] = Fetching("done", image_name, "hit")]
               /\ stdout' = << <<"Using cached image: ", image_path(image_name)>> >>
               /\ ret' = Fetched(image_name, FALSE, image_path(image_name), 0, None, <<>>)
          ELSE /\ requests' = [requests EXCEPT ![t] = Fetching("line171", image_name, "")]
               /\ UNCHANGED <<stdout, ret>>
    /\ UNCHANGED <<templates_dir, scenarios, scenario_description, conversation,
                   lm_client, cache_dir>>

\* get_or_generate_image, lines 171-174: the capability answers and the image
\* is saved
ImageSave(t) ==
    /\ requests[t].pc = "line171"
    /\ \E subscribed \in Subscriptions :
          LET image_name == requests[t].image_name
              image_data == generate_image(subscribed.result)
              saved      == save_image(cache_dir, image_data, with_extension(image_name))
          IN  IF subscribed.raised
              THEN /\ cache_dir' = cache_dir
                   /\ ret' = Fetched(image_name, TRUE, <<>>, 1, "fal_client", <<>>)
                   /\ requests' = [requests EXCEPT
                                      ![t] = Fetching("done", image_name, "raised")]
              ELSE /\ cache_dir' = saved.files
                   /\ ret' = Fetched(image_name, saved.raised, saved.value, 1, saved.error,
                                      image_content(image_data).bytes)
                   /\ requests' = [requests EXCEPT ![t] =
                          Fetching("done", image_name,
                                   IF saved.raised THEN "raised" ELSE "saved")]
    /\ stdout' = <<>>
    /\ UNCHANGED <<templates_dir, scenarios, scenario_description, conversation, lm_client>>

NextMisses ==
    \/ \E t \in Fetchers : ImageCheck(t)
    \/ \E t \in Fetchers : ImageSave(t)

SpecMisses == InitMisses /\ [][NextMisses]_vars

\* C27: the miss path is not deduplicated. A call that finds no file at its
\* path calls the capability whatever other calls are in flight for the same
\* path, and when the capability answers with an image the call writes it at
\* its destination whether or not another call has written there meanwhile:
\* one image may be generated and written more than once.
C27_MissPathIsNotDeduplicated ==
    [][\A t \in Fetchers :
         /\ (/\ requests[t].pc \in {"idle", "done"}
             /\ requests'[t] # requests[t]
             /\ image_path(requests'[t].image_name) \notin DOMAIN cache_dir)
            => requests'[t].pc = "line171"
         /\ (/\ requests[t].pc = "line171"
             /\ requests'[t].outcome = "saved")
            => /\ ret'.calls = 1
               /\ cache_dir'[ret'.value] = ret'.written]_vars

\* two calls for names of the same destination both missed, both called the
\* capability and both wrote image_cache/c.png; the file holds what the later
\* one wrote
C27_Witness ==
    /\ requests[1] = Fetching("done", <<"c">>, "saved")
    /\ requests[2] = Fetching("done", <<"c", ".", "p", "n", "g">>, "saved")
    /\ ret.args[1] = <<"c">>
    /\ cache_dir[image_path(<<"c">>)] = ret.written

=============================================================================
